---- MODULE Spec2Model ----
(***************************************************************************)
(* Model of spellcheck.py: the Trie dictionary (insert, has_word,          *)
(* generate_word) and SpellCheck.check with its recursive _helper.         *)
(*                                                                         *)
(* A word is a sequence of one-character strings.  A trie node is named by *)
(* the path of letters that leads to it from the root (the root is <<>>);  *)
(* the trie maps every existing node to its two attributes, word and       *)
(* children (the key set of the node's dict; the child under key l of node *)
(* p is the node Append(p, l)).                                            *)
(*                                                                         *)
(* Python leaves the iteration order of a dict unspecified, so every       *)
(* `for letter in trie.children` is modelled as a nondeterministic choice  *)
(* of the order, made independently at every node.                         *)
(***************************************************************************)
EXTENDS Integers, Sequences, FiniteSets, TLC

VARIABLES trie, count, inserted, out

vars == <<trie, count, inserted, out>>

---------------------------------------------------------------------------
(* Bounds of the model *)

\* longest dictionary word
MaxLen == 2
\* longest input word
MaxInLen == 3
\* number of insert calls in a run
MaxCount == 2
\* longest string given to the repeat collapse alone
MaxStrLen == 5

(* Alphabets *)
Letters == {"a", "b"}
CollapseChars == {"a", "e", "b", "c"}

RECURSIVE StringsUpTo(_, _)
StringsUpTo(S, n) ==
  IF n = 0 THEN {<<>>}
  ELSE LET shorter == StringsUpTo(S, n - 1)
       IN  shorter \cup {Append(s, c) : s \in {t \in shorter : Len(t) = n - 1}, c \in S}

Words == StringsUpTo(Letters, MaxLen) \ {<<>>}
Lowercase == StringsUpTo(Letters, MaxInLen)

\* what a caller may type: a lowercase word, the word with its first letter
\* in upper case, or the word with blanks around it
Capitalised(s) == IF s # <<>> /\ s[1] = "a" THEN <<"A">> \o Tail(s) ELSE s
Padded(s) == <<" ">> \o s \o <<" ", " ">>
Inputs == Lowercase \cup {Capitalised(s) : s \in Lowercase} \cup {Padded(s) : s \in Lowercase}

---------------------------------------------------------------------------
(* Values *)

None == <<"None">>
NO_SUGGESTION == <<"NO SUGGESTION">>
inf == 1000000
Idle == [op |-> "none"]

Min2(a, b) == IF a <= b THEN a ELSE b

RECURSIVE SeqMin(_)
SeqMin(s) == IF Len(s) = 1 THEN s[1] ELSE Min2(s[1], SeqMin(Tail(s)))

Range(s) == {s[i] : i \in 1..Len(s)}

---------------------------------------------------------------------------
(* class Trie *)

Node(w, c) == [word |-> w, children |-> c]

EmptyTrie == (<<>> :> Node(None, {}))

RECURSIVE InsertFrom(_, _, _, _)
InsertFrom(t, node, word, i) ==
  IF i > Len(word) THEN [t EXCEPT ![node].word = word]
  ELSE LET letter == word[i]
           child  == Append(node, letter)
           t1     == IF letter \notin t[node].children
                     THEN (child :> Node(None, {})) @@
                          [t EXCEPT ![node].children = @ \cup {letter}]
                     ELSE t
       IN  InsertFrom(t1, child, word, i + 1)

insert(t, word) == InsertFrom(t, <<>>, word, 1)

RECURSIVE HasWordFrom(_, _, _, _)
HasWordFrom(t, node, word, i) ==
  IF i > Len(word) THEN TRUE
  ELSE IF word[i] \notin t[node].children THEN FALSE
  ELSE HasWordFrom(t, Append(node, word[i]), word, i + 1)

\* has_word with the membership test negated
RECURSIVE HasWordInverted(_, _, _, _)
HasWordInverted(t, node, word, i) ==
  IF i > Len(word) THEN TRUE
  ELSE IF word[i] \in t[node].children THEN FALSE
  ELSE HasWordInverted(t, node, word, i + 1)

has_word_inverted(t, word) == HasWordInverted(t, <<>>, word, 1)

\* has_word that also asks for the word marker of the node reached
RECURSIVE HasWordMarked(_, _, _, _)
HasWordMarked(t, node, word, i) ==
  IF i > Len(word) THEN t[node].word # None
  ELSE IF word[i] \notin t[node].children THEN FALSE
  ELSE HasWordMarked(t, Append(node, word[i]), word, i + 1)

has_word_marked(t, word) == HasWordMarked(t, <<>>, word, 1)

has_word(t, word) == HasWordFrom(t, <<>>, word, 1)

\* the values generate_word can return, one for every sequence of random draws
RECURSIVE GenerateFrom(_, _)
GenerateFrom(t, node) ==
  IF t[node].children = {} THEN {t[node].word}
  ELSE UNION {GenerateFrom(t, Append(node, l)) : l \in t[node].children}

\* generate_word with `if` for `while`: one draw only
generate_word_once(t) ==
  IF t[<<>>].children = {} THEN {t[<<>>].word}
  ELSE {t[<<l>>].word : l \in t[<<>>].children}

generate_word(t) == GenerateFrom(t, <<>>)

---------------------------------------------------------------------------
(* class SpellCheck: normalisation of the input *)

Vowels == {"a", "e", "i", "o", "u"}

\* str.lower on one character
LowerChar(c) == IF c = "A" THEN "a" ELSE c

lower(s) == [i \in 1..Len(s) |-> LowerChar(s[i])]

IsSpace(c) == c = " "

RECURSIVE lstrip(_)
lstrip(s) == IF s # <<>> /\ IsSpace(s[1]) THEN lstrip(Tail(s)) ELSE s

RECURSIVE rstrip(_)
rstrip(s) ==
  IF s # <<>> /\ IsSpace(s[Len(s)]) THEN rstrip(SubSeq(s, 1, Len(s) - 1)) ELSE s

strip(s) == rstrip(lstrip(s))

normalize(raw) == strip(lower(raw))

\* length of the run of copies of s[i] that starts at position i
RECURSIVE RunLen(_, _)
RunLen(s, i) ==
  IF i < Len(s) /\ s[i + 1] = s[i] THEN 1 + RunLen(s, i + 1) ELSE 1

Copies(c, k) == [j \in 1..k |-> c]

\* re.sub(r'([C])\1+', repl, s) where the class C is the vowels (vowel = TRUE)
\* or their complement (vowel = FALSE) and repl is `keep` copies of \1:
\* leftmost, non-overlapping, greedy matches, scanning from position i
RECURSIVE ReSubFrom(_, _, _, _)
ReSubFrom(s, i, vowel, keep) ==
  IF i > Len(s) THEN <<>>
  ELSE IF ((s[i] \in Vowels) = vowel) /\ RunLen(s, i) >= 2
       THEN Copies(s[i], keep) \o ReSubFrom(s, i + RunLen(s, i), vowel, keep)
       ELSE <<s[i]>> \o ReSubFrom(s, i + 1, vowel, keep)

SubConsonantsDropped(word) == ReSubFrom(word, 1, FALSE, 0)

SubConsonants(word) == ReSubFrom(word, 1, FALSE, 1)

SubVowels(word) == ReSubFrom(word, 1, TRUE, 2)

collapse(word) == SubVowels(SubConsonants(word))

\* len(re.findall('[aeiou]', word))
VowelCount(word) == Cardinality({i \in 1..Len(word) : word[i] \in Vowels})

---------------------------------------------------------------------------
(* SpellCheck._helper *)

\* the row curr computed from prev for the edge labelled letter
RECURSIVE RowFrom(_, _, _, _, _)
RowFrom(curr, i, letter, word, prev) ==
  IF i > Len(word) THEN curr
  ELSE LET k == IF word[i] = letter
                THEN prev[i]
                ELSE Min2(Min2(curr[i], prev[i + 1]), prev[i]) + 1
       IN  RowFrom(Append(curr, k), i + 1, letter, word, prev)

\* the row with prev[i] for prev[i-1] where the letters agree
RECURSIVE RowFromShifted(_, _, _, _, _)
RowFromShifted(curr, i, letter, word, prev) ==
  IF i > Len(word) THEN curr
  ELSE LET k == IF word[i] = letter
                THEN prev[i + 1]
                ELSE Min2(Min2(curr[i], prev[i + 1]), prev[i]) + 1
       IN  RowFromShifted(Append(curr, k), i + 1, letter, word, prev)

RowShifted(letter, word, prev) == RowFromShifted(<<prev[1] + 1>>, 1, letter, word, prev)

Row(letter, word, prev) == RowFrom(<<prev[1] + 1>>, 1, letter, word, prev)

Last(s) == s[Len(s)]

\* `if curr[-1] <= dist and trie.word`
RecordsStrict(t, node, curr, dist) == Last(curr) < dist /\ t[node].word # None

Records(t, node, curr, dist) == Last(curr) <= dist /\ t[node].word # None

\* `if min(curr) <= dist`
DescendsOnLast(curr, dist) == Last(curr) <= dist

DescendsReversed(curr, dist) == SeqMin(curr) >= dist

Descends(curr, dist) == SeqMin(curr) <= dist

\* The lists of matches one call of _helper can append to res, one for every
\* iteration order of the children dicts below the node.
RECURSIVE Helper(_, _, _, _, _)
RECURSIVE HelperChildren(_, _, _, _, _, _)
Helper(t, node, word, prev, dist) ==
  LET curr == Row(Last(node), word, prev)
      here == IF Records(t, node, curr, dist)
              THEN << <<t[node].word, Last(curr)>> >>
              ELSE <<>>
  IN  IF Descends(curr, dist)
      THEN {here \o r : r \in HelperChildren(t, node, t[node].children, word, curr, dist)}
      ELSE {here}

\* the loop `for letter in trie.children: self._helper(...)` over the keys left
HelperChildren(t, node, left, word, row, dist) ==
  IF left = {} THEN {<<>>}
  ELSE UNION {{a \o b : a \in Helper(t, Append(node, l), word, row, dist),
                        b \in HelperChildren(t, node, left \ {l}, word, row, dist)}
              : l \in left}

\* the calls of _helper below and at a node: the node and the row curr
RECURSIVE Visits(_, _, _, _, _)
Visits(t, node, word, prev, dist) ==
  LET curr == Row(Last(node), word, prev)
  IN  {<<node, curr>>} \cup
      IF Descends(curr, dist)
      THEN UNION {Visits(t, Append(node, l), word, curr, dist) : l \in t[node].children}
      ELSE {}

\* `row = range(n+1)`
FirstRow(word) == [i \in 1..(Len(word) + 1) |-> i - 1]

\* lines 92-96: the values of res after the loop over the root's children
Traverse(t, word, dist) == HelperChildren(t, <<>>, t[<<>>].children, word, FirstRow(word), dist)

TraverseVisits(t, word, dist) ==
  UNION {Visits(t, <<l>>, word, FirstRow(word), dist) : l \in t[<<>>].children}

\* the nodes on which _helper is called
TraverseVisited(t, word, dist) == {v[1] : v \in TraverseVisits(t, word, dist)}

---------------------------------------------------------------------------
(* SpellCheck.check *)

Dists(res) == [i \in 1..Len(res) |-> res[i][2]]

\* `min(res, key = lambda x: x[1])[1] if res else float('inf')`
InitialMinDistInf(res) == inf

InitialMinDist(res) == IF res # <<>> THEN SeqMin(Dists(res)) ELSE inf

\* the loop of lines 103-106, from position i of res
RECURSIVE FilterFrom(_, _, _, _)
FilterFrom(res, i, min_dist, temp) ==
  IF i > Len(res) THEN temp
  ELSE IF res[i][2] <= min_dist
       THEN FilterFrom(res, i + 1, res[i][2], Append(temp, res[i][1]))
       ELSE FilterFrom(res, i + 1, min_dist, temp)

Filter(res) == FilterFrom(res, 1, InitialMinDist(res), <<>>)

RemoveAt(s, i) == SubSeq(s, 1, i - 1) \o SubSeq(s, i + 1, Len(s))

\* lines 108-119: the suggestion and what is left of temp
Select(temp, word) ==
  IF temp = <<>> THEN [output |-> NO_SUGGESTION, temp |-> <<>>]
  ELSE LET popped == SubSeq(temp, 1, Len(temp) - 1)
           same   == {i \in 1..Len(popped) : popped[i][1] = word[1]}
       IN  IF Len(popped) >= 1 /\ same # {}
           THEN LET i == CHOOSE j \in same : \A k \in same : j <= k
                IN  [output |-> popped[i], temp |-> RemoveAt(popped, i)]
           ELSE [output |-> Last(temp), temp |-> popped]

\* ', '.join(temp)
RECURSIVE join(_)
join(temp) ==
  IF temp = <<>> THEN <<>>
  ELSE IF Len(temp) = 1 THEN temp[1]
  ELSE temp[1] \o <<",", " ">> \o join(Tail(temp))

\* every result check(raw) can return, with the intermediate values
CheckRuns(t, raw) ==
  LET norm == normalize(raw)
  IN  IF has_word(t, norm)
      THEN {[op |-> "check", raw |-> raw, exact |-> TRUE, word |-> norm,
             output |-> norm, alternates |-> <<>>]}
      ELSE LET word == collapse(norm)
               dist == VowelCount(word)
           IN  {LET temp == Filter(res)
                    sel  == Select(temp, word)
                IN  [op |-> "check", raw |-> raw, exact |-> FALSE, word |-> word,
                     dist |-> dist, res |-> res, candidates |-> temp,
                     output |-> sel.output, temp |-> sel.temp,
                     alternates |-> join(sel.temp)]
                : res \in Traverse(t, word, dist)}

---------------------------------------------------------------------------
(* The operations.  The program is sequential: a call starts when the   *)
(* previous one has returned (out = Idle) and out holds its result until  *)
(* the caller takes it (Return).                                          *)

Init ==
  /\ trie = EmptyTrie
  /\ count = 0
  /\ inserted = {}
  /\ out = Idle

Insert(word) ==
  /\ out = Idle
  /\ count < MaxCount
  /\ trie' = insert(trie, word)
  /\ count' = count + 1
  /\ inserted' = inserted \cup {word}
  /\ UNCHANGED out

HasWord(word) ==
  /\ out = Idle
  /\ out' = [op |-> "has_word", word |-> word, result |-> has_word(trie, word)]
  /\ UNCHANGED <<trie, count, inserted>>

GenerateWord ==
  /\ out = Idle
  /\ \E w \in generate_word(trie) : out' = [op |-> "generate_word", result |-> w]
  /\ UNCHANGED <<trie, count, inserted>>

Check(raw) ==
  /\ out = Idle
  /\ \E o \in CheckRuns(trie, raw) : out' = o
  /\ UNCHANGED <<trie, count, inserted>>

\* the traversal of lines 92-96 alone, on a word with a given budget
Search(word, dist) ==
  /\ out = Idle
  /\ \E res \in Traverse(trie, word, dist) :
       out' = [op |-> "search", word |-> word, dist |-> dist, res |-> res,
               visited |-> TraverseVisited(trie, word, dist)]
  /\ UNCHANGED <<trie, count, inserted>>

Return ==
  /\ out # Idle
  /\ out' = Idle
  /\ UNCHANGED <<trie, count, inserted>>

Next ==
  \/ \E word \in Words : Insert(word)
  \/ \E word \in Lowercase : HasWord(word)
  \/ GenerateWord
  \/ \E raw \in Inputs : Check(raw)
  \/ \E word \in Lowercase, dist \in 0..MaxLen : Search(word, dist)
  \/ Return

Spec == Init /\ [][Next]_vars

---------------------------------------------------------------------------
(* The repeat collapse of lines 86-87 alone, on any string *)

Collapse(s) ==
  /\ out = Idle
  /\ out' = [op |-> "collapse", input |-> s, once |-> collapse(s),
             twice |-> collapse(collapse(s))]
  /\ UNCHANGED <<trie, count, inserted>>

CollapseNext == \E s \in StringsUpTo(CollapseChars, MaxStrLen) : Collapse(s)

SpecCollapse == Init /\ [][CollapseNext]_vars

---------------------------------------------------------------------------
(* The scenario: insert "color", "colour", "collar" in that order, then     *)
(* check "collor" or a word one edit away from it                          *)

color  == <<"c", "o", "l", "o", "r">>
colour == <<"c", "o", "l", "o", "u", "r">>
collar == <<"c", "o", "l", "l", "a", "r">>
collor == <<"c", "o", "l", "l", "o", "r">>

ScenarioOrder == <<color, colour, collar>>
ScenarioLetters == {"c", "o", "l", "u", "r", "a"}

ScenarioInputs ==
  {collor}
  \cup {RemoveAt(collor, i) : i \in 1..Len(collor)}
  \cup {[collor EXCEPT ![i] = c] : i \in 1..Len(collor), c \in ScenarioLetters}

InsertScenario ==
  /\ out = Idle
  /\ count < Len(ScenarioOrder)
  /\ trie' = insert(trie, ScenarioOrder[count + 1])
  /\ count' = count + 1
  /\ inserted' = inserted \cup {ScenarioOrder[count + 1]}
  /\ UNCHANGED out

ScenarioNext ==
  \/ InsertScenario
  \/ \E raw \in ScenarioInputs : Check(raw)
  \/ Return

SpecScenario == Init /\ [][ScenarioNext]_vars

---------------------------------------------------------------------------
(* Reference definitions for the properties *)

\* Levenshtein distance of the prefixes of lengths i and j of a and b, by
\* its defining recurrence on their last characters
RECURSIVE LevPrefix(_, _, _, _)
LevPrefix(a, b, i, j) ==
  IF i = 0 THEN j
  ELSE IF j = 0 THEN i
  ELSE Min2(Min2(LevPrefix(a, b, i - 1, j) + 1, LevPrefix(a, b, i, j - 1) + 1),
            LevPrefix(a, b, i - 1, j - 1) + (IF a[i] = b[j] THEN 0 ELSE 1))

Lev(a, b) == LevPrefix(a, b, Len(a), Len(b))

IsPrefix(p, w) == Len(p) <= Len(w) /\ SubSeq(w, 1, Len(p)) = p

\* the inserted words within budget dist of word
Within(word, dist) == {w \in inserted : Lev(word, w) <= dist}

\* those of them at the smallest distance
Nearest(word, dist) ==
  {w \in Within(word, dist) : \A v \in Within(word, dist) : Lev(word, w) <= Lev(word, v)}

Fuzzy == out.op = "check" /\ ~out.exact

NoRepeat(s) == \A i, j \in 1..Len(s) : s[i] = s[j] => i = j

\* the matches recorded by a set of calls of _helper: what line 139 accepts
MatchesOf(visits, dist) ==
  {<<trie[v[1]].word, Last(v[2])>> :
     v \in {u \in visits : Records(trie, u[1], u[2], dist)}}

---------------------------------------------------------------------------
(* C1: the matches the pruned traversal records are exactly the inserted   *)
(* words within the budget of the input word, each once and with its       *)
(* Levenshtein distance; pruning skips no word within budget.              *)
C1_TraversalExact ==
  (out.op = "search" \/ Fuzzy) =>
    /\ Range(out.res) = {m \in {<<w, Lev(out.word, w)>> : w \in inserted} : m[2] <= out.dist}
    /\ NoRepeat(out.res)

\* a search that recorded a match, left a word out of budget unrecorded and
\* skipped a subtree
C1_Witness ==
  /\ out.op = "search"
  /\ out.res # <<>>
  /\ \E w \in inserted : Lev(out.word, w) > out.dist
  /\ \E n \in DOMAIN trie : n # <<>> /\ n \notin out.visited

(* C2: check(w) of an inserted word w returns w with no alternates,        *)
(* whatever else the dictionary holds.                                     *)
C2_ExactMatch ==
  (out.op = "check" /\ out.raw \in inserted) =>
    out.output = out.raw /\ out.alternates = <<>>

C2_Witness ==
  /\ out.op = "check"
  /\ out.raw \in inserted
  /\ Cardinality(inserted) >= 2
  /\ collapse(out.raw) # out.raw

(* C3: every candidate at the minimum distance is returned by check, as    *)
(* the primary or among the alternates; two tied candidates that both      *)
(* start with the input's first letter come back as primary and sole       *)
(* alternate.                                                              *)
C3_NoCandidateDropped ==
  Fuzzy =>
    /\ \A w \in Nearest(out.word, out.dist) : w = out.output \/ w \in Range(out.temp)
    /\ \A v, w \in Nearest(out.word, out.dist) :
         (v # w /\ Nearest(out.word, out.dist) = {v, w}
               /\ v[1] = out.word[1] /\ w[1] = out.word[1])
         => ({out.output} \cup Range(out.temp) = {v, w} /\ Len(out.temp) = 1)

(* C4 as stated: with "color", "colour", "collar" inserted in that order,  *)
(* check("collor") keeps the input, uses budget 2, finds distances 1, 2,   *)
(* 1, keeps color and collar and returns one as primary and the other as   *)
(* the one alternate.                                                      *)
C4_Scenario ==
  (out.op = "check" /\ out.raw = collor /\ inserted = {color, colour, collar}) =>
    /\ ~out.exact
    /\ out.word = collor
    /\ out.dist = 2
    /\ Range(out.res) = {<<color, 1>>, <<colour, 2>>, <<collar, 1>>}
    /\ Range(out.candidates) = {color, collar}
    /\ Len(out.temp) = 1
    /\ {out.output} \cup Range(out.temp) = {color, collar}

(* C4 amended: with "color", "colour", "collar" inserted in that order,    *)
(* check("collor") collapses the input to "color" (the run "ll" is a       *)
(* repeated non-vowel), uses budget 2, finds distances color 0, colour 1,  *)
(* collar 2, keeps color alone and returns it with no alternate.           *)
C4_ScenarioCollapsed ==
  (out.op = "check" /\ out.raw = collor /\ inserted = {color, colour, collar}) =>
    /\ ~out.exact
    /\ out.word = color
    /\ out.dist = 2
    /\ Range(out.res) = {<<color, 0>>, <<colour, 1>>, <<collar, 2>>}
    /\ out.candidates = <<color>>
    /\ out.output = color
    /\ out.temp = <<>>
    /\ out.alternates = <<>>

C4_Witness ==
  /\ out.op = "check"
  /\ out.raw = collor
  /\ inserted = {color, colour, collar}
  /\ Len(out.res) = 3

(* C5 as stated: has_word(p) is true exactly when p is a prefix of some    *)
(* inserted word, and check(p) of a proper prefix that was not inserted    *)
(* returns p with no alternates without the fuzzy search.                  *)
C5_PrefixOfInserted ==
  /\ out.op = "has_word" =>
       (out.result <=> \E w \in inserted : IsPrefix(out.word, w))
  /\ (out.op = "check" /\ out.raw \notin inserted
        /\ \E w \in inserted : IsPrefix(out.raw, w)) =>
       (out.exact /\ out.output = out.raw /\ out.alternates = <<>>)

(* C5 amended: has_word(p) is true exactly when p is empty or a prefix of  *)
(* some inserted word (the empty word is found in the empty dictionary     *)
(* too); check(p) of a proper prefix that was not inserted returns p with  *)
(* no alternates without the fuzzy search.                                 *)
C5_PathExists ==
  /\ out.op = "has_word" =>
       (out.result <=> (out.word = <<>> \/ \E w \in inserted : IsPrefix(out.word, w)))
  /\ (out.op = "check" /\ out.raw \notin inserted
        /\ \E w \in inserted : IsPrefix(out.raw, w)) =>
       (out.exact /\ out.output = out.raw /\ out.alternates = <<>>)

\* a non-empty proper prefix that was never inserted is reported present
C5_Witness ==
  /\ out.op = "has_word"
  /\ out.result
  /\ out.word # <<>>
  /\ out.word \notin inserted

(* C6: once a word is inserted every node without children carries the     *)
(* word its path spells and every key of a node leads to a node one        *)
(* letter deeper (so the walk of generate_word ends), and generate_word    *)
(* returns an inserted word that has_word finds, whatever the random       *)
(* draws; on the empty dictionary it returns None.                         *)
C6_SamplingValid ==
  /\ inserted # {} =>
       \A n \in DOMAIN trie : trie[n].children = {} => trie[n].word = n
  /\ \A n \in DOMAIN trie : \A l \in trie[n].children : Append(n, l) \in DOMAIN trie
  /\ out.op = "generate_word" =>
       IF inserted = {} THEN out.result = None
       ELSE out.result \in inserted /\ has_word(trie, out.result)

\* a sample from a dictionary that also holds a word ending at an inner node
C6_Witness ==
  /\ out.op = "generate_word"
  /\ out.result \in inserted
  /\ \E w \in inserted : trie[w].children # {}

(* C7: for a fixed dictionary and word, the matches recorded and the       *)
(* nodes visited under a budget are among those under any larger budget.   *)
C7_BudgetMonotone ==
  out.op = "search" =>
    \A d \in out.dist..(MaxLen + 1) :
      LET wider == TraverseVisits(trie, out.word, d)
      IN  /\ Range(out.res) \subseteq MatchesOf(wider, d)
          /\ out.visited \subseteq {v[1] : v \in wider}
          /\ d = out.dist => Range(out.res) = MatchesOf(wider, d)

\* a larger budget that records more and visits more
C7_Witness ==
  /\ out.op = "search"
  /\ out.res # <<>>
  /\ \E d \in out.dist..(MaxLen + 1) :
       LET wider == TraverseVisits(trie, out.word, d)
       IN  /\ Range(out.res) # MatchesOf(wider, d)
           /\ out.visited # {v[1] : v \in wider}

(* C8: collapsing an already collapsed string changes nothing.             *)
C8_CollapseIdempotent ==
  out.op = "collapse" => out.twice = out.once

\* a string with a consonant run and a vowel run of three
C8_Witness ==
  /\ out.op = "collapse"
  /\ Len(out.once) = Len(out.input) - 2
  /\ \E i \in 1..Len(out.input) : out.input[i] \in Vowels /\ RunLen(out.input, i) = 3
  /\ \E i \in 1..Len(out.input) : out.input[i] \notin Vowels /\ RunLen(out.input, i) = 2

(* C9: a check that is not an exact path match returns NO SUGGESTION with  *)
(* no alternates when no inserted word is within budget, and an inserted   *)
(* word otherwise; on the empty dictionary it returns NO SUGGESTION.       *)
C9_NeverFails ==
  Fuzzy =>
    LET word == collapse(normalize(out.raw))
        near == Within(word, VowelCount(word))
    IN  /\ near = {} => (out.output = NO_SUGGESTION /\ out.alternates = <<>>)
        /\ near # {} => out.output \in inserted
        /\ inserted = {} => (out.output = NO_SUGGESTION /\ out.alternates = <<>>)

\* words are inserted, none within budget
C9_Witness ==
  /\ Fuzzy
  /\ inserted # {}
  /\ out.output = NO_SUGGESTION

(* C10: the candidates are the matches at the minimum recorded distance,   *)
(* in discovery order; the primary is the first of them, the last one      *)
(* excepted, that starts with the input's first letter, or else the last   *)
(* one; the primary is at the minimum distance.                            *)
C10_PrimarySelection ==
  (Fuzzy /\ out.res # <<>>) =>
    LET best  == CHOOSE d \in Range(Dists(out.res)) : \A e \in Range(Dists(out.res)) : d <= e
        tied  == SelectSeq(out.res, LAMBDA m : m[2] = best)
        cands == [i \in 1..Len(tied) |-> tied[i][1]]
        same  == {i \in 1..(Len(cands) - 1) : cands[i][1] = out.word[1]}
    IN  /\ out.candidates = cands
        /\ out.output = IF same = {} THEN cands[Len(cands)]
                        ELSE cands[CHOOSE i \in same : \A j \in same : i <= j]
        /\ <<out.output, best>> \in Range(out.res)

\* the first-letter rule moved the primary away from the last candidate
C10_Witness ==
  /\ Fuzzy
  /\ Len(out.candidates) >= 2
  /\ out.output # Last(out.candidates)

====
